---- MODULE Spec2Model ----
(***************************************************************************)
(* A model of the terminal system monitor (src/src/main.rs and             *)
(* src/src/hardware.rs): start-up (NVML initialisation, terminal set-up,   *)
(* SystemData::new with GPU detection), the main loop (interval gate with  *)
(* SystemData::update, redraw, input poll) and the terminal restore.       *)
(*                                                                         *)
(* Numbers.  Percentages the program keeps as f64 are kept as integers in  *)
(* units of 1/Scale percent (fixed point); products are formed before the  *)
(* division so that the smoothing  x*0.7 + t*0.3  is (7x + 3t) \div 10.    *)
(* The tick counter (an f64 that only ever takes whole values) is an       *)
(* integer.  hardware.rs is modelled as built for Linux.                   *)
(***************************************************************************)
EXTENDS Integers, Sequences, FiniteSets, TLC

VARIABLES
    pc,          \* position of main: "nvml_init", "term_setup", "new_data",
                 \* "gate", "draw", "poll", "restore", "exit"
    config,      \* AppConfig after load / update_from_args
    nvml,        \* main's Option<Nvml>: TRUE = Some, FALSE = None
    raw_mode,    \* terminal raw mode enabled
    alt_screen,  \* alternate screen entered
    data,        \* SystemData (NoData before SystemData::new)
    elapsed,     \* last_update.elapsed() as measured at the latest gate
    screen,      \* what the latest terminal.draw rendered (NoScreen before)
    exit_cause,  \* why main returned ("none" while it runs)
    result,      \* outcome of the latest data.update call: "none","ok","err"
    trace,       \* reads and appends of the latest data.update call, in order
    stamps,      \* for each group of values, the update call that last wrote it
    attempts,    \* number of data.update calls made so far
    fed          \* the CPU readings of the update calls that returned Ok, in order

vars == <<pc, config, nvml, raw_mode, alt_screen, data, elapsed, screen,
          exit_cause, result, trace, stamps, attempts, fed>>

----------------------------------------------------------------------------
(* Bounds of the model *)

\* largest configured history size explored (config.history ranges over 0..MaxHistory)
MaxHistory == 2

\* largest number of data.update calls in a run
MaxTicks == 3

(* Program constants *)

\* cap of cpu_data and memory_data in SystemData::update
SeriesCap == 100

\* fixed-point scale: 1 percent = Scale units
Scale == 1000000

\* default sampling interval in ms
DefaultInterval == 50

----------------------------------------------------------------------------
(* Inputs *)

\* what the host reports at one sampling instant
Readings ==
    { [cpu |-> 10, total_memory |-> 4, used_memory |-> 2, available_memory |-> 2,
       swap_total |-> 0, swap_used |-> 0,
       gpu_util |-> 30, gpu_mem_used |-> 1, gpu_mem_total |-> 4, gpu_temp |-> 50,
       nets |-> << [name |-> "eth0", received |-> 60, transmitted |-> 30],
                   [name |-> "lo",   received |-> 40, transmitted |-> 10] >>],
      [cpu |-> 20, total_memory |-> 4, used_memory |-> 3, available_memory |-> 1,
       swap_total |-> 4, swap_used |-> 1,
       gpu_util |-> 70, gpu_mem_used |-> 2, gpu_mem_total |-> 4, gpu_temp |-> 60,
       nets |-> << [name |-> "eth0", received |-> 80, transmitted |-> 60] >>] }

\* which NVML call of a tick fails, if any
GpuOutcomes == {"ok", "device_err", "util_err", "mem_err", "temp_err"}

\* values of last_update.elapsed() at the gate: below the interval, exactly
\* the interval, several intervals
ElapsedValues == {10, 50, 200}

Intervals == {DefaultInterval}

Configs ==
    [no_gpu : BOOLEAN, no_network : BOOLEAN, interval : Intervals,
     history : 0..MaxHistory]

----------------------------------------------------------------------------
(* Helpers *)

Last(s) == s[Len(s)]

\* Vec::push followed by `if len > cap { remove(0) }`
PushCapped(s, x, cap) ==
    LET t == Append(s, x)
    IN  IF Len(t) > cap THEN Tail(t) ELSE t

\* (a as f64 / b as f64) * 100.0, in fixed point
Percent(a, b) == (a * 100 * Scale) \div b

RECURSIVE SumReceived(_)
SumReceived(ns) ==
    IF ns = << >> THEN 0 ELSE Head(ns).received + SumReceived(Tail(ns))

RECURSIVE SumTransmitted(_)
SumTransmitted(ns) ==
    IF ns = << >> THEN 0 ELSE Head(ns).transmitted + SumTransmitted(Tail(ns))

\* a plain subtraction, which goes below zero when the counter went down
PlainSub(a, b) == a - b

\* u64::saturating_sub
SaturatingSub(a, b) == IF a >= b THEN a - b ELSE 0

----------------------------------------------------------------------------
(* Graph *)

GraphTitle(graph_type) ==
    CASE graph_type = "Cpu"    -> "CPU Usage"
      [] graph_type = "Memory" -> "Memory Usage"
      [] graph_type = "Gpu"    -> "GPU Usage"
      [] graph_type = "Swap"   -> "SWAP Usage"

\* Graph::new: every chart starts with the one sample (0.0, 0.0)
GraphNew(graph_type) ==
    [graph_type |-> graph_type,
     data       |-> << <<0, 0>> >>,
     title      |-> GraphTitle(graph_type)]

\* the value Graph::update charts for its kind
GraphValue(graph_type, d) ==
    CASE graph_type = "Cpu"    -> d.cpu_current
      [] graph_type = "Memory" -> d.mem_current
      [] graph_type = "Gpu"    -> d.gpu_current
      [] graph_type = "Swap"   ->
            IF d.swap_total > 0 THEN Percent(d.swap_used, d.swap_total) ELSE 0

\* Graph::update: push (counter, value), then drop the oldest sample if the
\* length exceeds config.history
GraphUpdate(graph, d, cfg) ==
    [graph EXCEPT
        !.data = PushCapped(@, <<d.counter, GraphValue(graph.graph_type, d)>>,
                            cfg.history)]

----------------------------------------------------------------------------
(* hardware.rs *)

\* outcomes of the calls detect_gpu (linux) makes
DetectInputs ==
    [nvml_init : BOOLEAN, device : BOOLEAN, name : BOOLEAN,
     vendor : {"unreadable", "0x1002", "other"}, product_name : BOOLEAN]

\* detect_gpu: NVML first, then /sys/class/drm/card0, then Unknown; the `?`
\* on device.name() and on reading product_name return the error
detect_gpu(i) ==
    IF i.nvml_init /\ i.device
    THEN IF i.name
         THEN [ok |-> TRUE,  gpu_type |-> "Nvidia", gpu_model |-> "nvidia-name"]
         ELSE [ok |-> FALSE, gpu_type |-> "none",   gpu_model |-> "none"]
    ELSE IF i.vendor = "0x1002"
         THEN IF i.product_name
              THEN [ok |-> TRUE,  gpu_type |-> "Amd",  gpu_model |-> "amd-product"]
              ELSE [ok |-> FALSE, gpu_type |-> "none", gpu_model |-> "none"]
         ELSE [ok |-> TRUE, gpu_type |-> "Unknown", gpu_model |-> "Unknown GPU"]

\* SystemInfo::new: `detect_gpu()?`, the detected GpuType is dropped
SystemInfoNew(i) ==
    LET g == detect_gpu(i)
    IN  IF g.ok
        THEN [ok |-> TRUE,  info |-> [gpu_model |-> g.gpu_model, os_name |-> "Linux"]]
        ELSE [ok |-> FALSE, info |-> [gpu_model |-> "none", os_name |-> "none"]]

----------------------------------------------------------------------------
(* SystemData *)

NoData == [counter |-> 0]

NoScreen == [drawn |-> FALSE]

\* the charts SystemData::new creates: the GPU chart whenever !config.no_gpu
NewGraphs(cfg) ==
    << GraphNew("Cpu") >>
    \o (IF ~cfg.no_gpu THEN << GraphNew("Gpu") >> ELSE << >>)
    \o << GraphNew("Memory"), GraphNew("Swap") >>

\* SystemData::new, given the SystemInfo it obtained
SystemDataNew(cfg, system_info) ==
    [cpu_data         |-> << <<0, 0>> >>,
     memory_data      |-> << <<0, 0>> >>,
     gpu_data         |-> << <<0, 0>> >>,
     counter          |-> 1,
     cpu_current      |-> 0,
     mem_current      |-> 0,
     gpu_current      |-> 0,
     gpu_memory       |-> 0,
     gpu_temp         |-> 0,
     total_memory     |-> 0,
     used_memory      |-> 0,
     available_memory |-> 0,
     swap_total       |-> 0,
     swap_used        |-> 0,
     rx_bytes         |-> 0,
     tx_bytes         |-> 0,
     rx_bytes_total   |-> 0,
     tx_bytes_total   |-> 0,
     networks         |-> << >>,
     system_info      |-> system_info,
     graphs           |-> NewGraphs(cfg)]

\* an entry of the trace: op is "read" (a call to the host is made), "fail"
\* (that call returned an error) or "push" (a sample is appended to a series)
Ev(op, what) == [op |-> op, what |-> what]

\* An update in progress: the data, whether it has returned an error, the
\* reads and appends made so far, and which groups of values it has written.
Begin(d, st) == [d |-> d, ok |-> TRUE, tr |-> << >>, st |-> st]

\* sys.refresh_memory(); sys.refresh_cpu();
Refresh(u) ==
    [u EXCEPT !.tr = @ \o << Ev("read", "memory"), Ev("read", "cpu") >>]

\* "CPU usage": cpu_current and the cpu_data series (cap 100)
UpdateCpu(u, r, n) ==
    LET v == r.cpu * Scale
    IN  [u EXCEPT
            !.d.cpu_current = v,
            !.d.cpu_data = PushCapped(@, <<u.d.counter, v>>, SeriesCap),
            !.tr = @ \o << Ev("push", "cpu_data") >>,
            !.st.cpu = n]

\* x * 0.7 + target * 0.3
Smooth(prev, target) == (prev * 7 + target * 3) \div 10

\* memory and swap figures, the smoothed mem_current and the memory_data
\* series (cap 100)
UpdateMemory(u, r, n) ==
    LET target == Percent(r.used_memory, r.total_memory)
        m == Smooth(u.d.mem_current, target)
    IN  [u EXCEPT
            !.d.total_memory = r.total_memory,
            !.d.used_memory = r.used_memory,
            !.d.available_memory = r.available_memory,
            !.d.swap_total = r.swap_total,
            !.d.swap_used = r.swap_used,
            !.d.mem_current = m,
            !.d.memory_data = PushCapped(@, <<u.d.counter, m>>, SeriesCap),
            !.tr = @ \o << Ev("push", "memory_data") >>,
            !.st.mem = n]

\* a GPU block entered on the configuration alone, without an NVML handle
GpuEnabledByConfigOnly(cfg, nv) == ~cfg.no_gpu

\* whether update enters the GPU block: !config.no_gpu and nvml is Some
GpuEnabled(cfg, nv) == ~cfg.no_gpu /\ nv

\* "GPU update": device_by_index(0) failing skips the block; a failing
\* utilization_rates, memory_info or temperature returns the error (`?`)
UpdateGpu(u, r, g, cfg, nv, n) ==
    IF ~GpuEnabled(cfg, nv) THEN u
    ELSE LET u0 == [u EXCEPT !.tr = @ \o << Ev("read", "gpu_device") >>] IN
    IF g = "device_err" THEN [u0 EXCEPT !.tr = @ \o << Ev("fail", "gpu_device") >>]
    ELSE LET u1 == [u0 EXCEPT !.tr = @ \o << Ev("read", "gpu_utilization") >>] IN
    IF g = "util_err"
    THEN [u1 EXCEPT !.ok = FALSE, !.tr = @ \o << Ev("fail", "gpu_utilization") >>]
    ELSE LET v  == r.gpu_util * Scale
             u2 == [u1 EXCEPT
                       !.d.gpu_current = v,
                       !.d.gpu_data = PushCapped(@, <<u.d.counter, v>>, cfg.history),
                       !.tr = @ \o << Ev("push", "gpu_data"),
                                      Ev("read", "gpu_memory_info") >>,
                       !.st.gpu = n] IN
    IF g = "mem_err"
    THEN [u2 EXCEPT !.ok = FALSE, !.tr = @ \o << Ev("fail", "gpu_memory_info") >>]
    ELSE LET u3 == [u2 EXCEPT
                       !.d.gpu_memory = Percent(r.gpu_mem_used, r.gpu_mem_total),
                       !.tr = @ \o << Ev("read", "gpu_temperature") >>] IN
    IF g = "temp_err"
    THEN [u3 EXCEPT !.ok = FALSE, !.tr = @ \o << Ev("fail", "gpu_temperature") >>]
    ELSE [u3 EXCEPT !.d.gpu_temp = r.gpu_temp * Scale]

\* "Network update": refresh, sum the interface counters, saturating deltas
UpdateNetwork(u, r, cfg, n) ==
    IF ~u.ok \/ cfg.no_network THEN u
    ELSE LET new_rx == SumReceived(r.nets)
             new_tx == SumTransmitted(r.nets)
         IN  [u EXCEPT
                 !.d.networks = r.nets,
                 !.d.rx_bytes = SaturatingSub(new_rx, u.d.rx_bytes_total),
                 !.d.tx_bytes = SaturatingSub(new_tx, u.d.tx_bytes_total),
                 !.d.rx_bytes_total = new_rx,
                 !.d.tx_bytes_total = new_tx,
                 !.tr = @ \o << Ev("read", "networks") >>,
                 !.st.net = n]

\* `for graph in &mut self.graphs { graph.update(&update_data) }`
UpdateGraphs(u, cfg, n) ==
    IF ~u.ok THEN u
    ELSE [u EXCEPT
             !.d.graphs = [i \in 1..Len(u.d.graphs) |->
                              GraphUpdate(u.d.graphs[i], u.d, cfg)],
             !.tr = @ \o [i \in 1..Len(u.d.graphs) |->
                              Ev("push", u.d.graphs[i].graph_type)],
             !.st.graphs = n]

\* a counter that advances by two per completed cycle
NextCounterTwice(c) == c + 2

\* self.counter += 1.0
NextCounter(c) == c + 1

AdvanceCounter(u) ==
    IF ~u.ok THEN u ELSE [u EXCEPT !.d.counter = NextCounter(@)]

\* SystemData::update on reading r with GPU outcome g, as the n-th call
SystemDataUpdate(d, st, r, g, cfg, nv, n) ==
    AdvanceCounter(
      UpdateGraphs(
        UpdateNetwork(
          UpdateGpu(
            UpdateMemory(UpdateCpu(Refresh(Begin(d, st)), r, n), r, n),
            r, g, cfg, nv, n),
          r, cfg, n),
        cfg, n))

----------------------------------------------------------------------------
(* Rendering *)

\* draw_chart: the dataset is the chart's data, the title shows the latest
\* value, the x axis spans [counter - 100, counter]
draw_chart(graph, counter) ==
    [title         |-> graph.title,
     current_value |-> IF graph.data = << >> THEN 0 ELSE Last(graph.data)[2],
     dataset       |-> graph.data,
     x_bounds      |-> <<counter - 100, counter>>]

\* draw_stats: the GPU section is shown whenever !config.no_gpu, the network
\* section whenever !config.no_network
draw_stats(d, cfg) ==
    [cpu     |-> d.cpu_current,
     memory  |-> <<d.mem_current, d.total_memory, d.used_memory, d.available_memory>>,
     swap    |-> <<GraphValue("Swap", d), d.swap_total, d.swap_used>>,
     gpu     |-> IF ~cfg.no_gpu
                 THEN << [model |-> d.system_info.gpu_model, usage |-> d.gpu_current,
                          memory |-> d.gpu_memory, temperature |-> d.gpu_temp] >>
                 ELSE << >>,
     network |-> IF ~cfg.no_network
                 THEN << [download |-> d.rx_bytes, upload |-> d.tx_bytes,
                          interfaces |-> d.networks] >>
                 ELSE << >>]

\* the closure given to terminal.draw
Render(d, cfg) ==
    [drawn  |-> TRUE,
     charts |-> [i \in 1..Len(d.graphs) |-> draw_chart(d.graphs[i], d.counter)],
     stats  |-> draw_stats(d, cfg)]

----------------------------------------------------------------------------
(* main *)

NoStamps == [cpu |-> 0, mem |-> 0, gpu |-> 0, net |-> 0, graphs |-> 0]

Init ==
    /\ pc = "nvml_init"
    /\ config \in Configs
    /\ nvml = FALSE
    /\ raw_mode = FALSE
    /\ alt_screen = FALSE
    /\ data = NoData
    /\ elapsed = 0
    /\ screen = NoScreen
    /\ exit_cause = "none"
    /\ result = "none"
    /\ trace = << >>
    /\ stamps = NoStamps
    /\ attempts = 0
    /\ fed = << >>

\* "Initialize NVML conditionally": Nvml::init() only when !config.no_gpu
NvmlInit ==
    /\ pc = "nvml_init"
    /\ \E init_ok \in BOOLEAN :
          nvml' = IF ~config.no_gpu THEN init_ok ELSE FALSE
    /\ pc' = "term_setup"
    /\ UNCHANGED <<config, raw_mode, alt_screen, data, elapsed, screen,
                   exit_cause, result, trace, stamps, attempts, fed>>

\* "Terminal setup": enable_raw_mode()?, EnterAlternateScreen?, Terminal::new?
TerminalSetup ==
    /\ pc = "term_setup"
    /\ \E o \in {"ok", "raw_err", "alt_err", "term_err"} :
          /\ raw_mode' = (o # "raw_err")
          /\ alt_screen' = (o \in {"ok", "term_err"})
          /\ pc' = IF o = "ok" THEN "new_data" ELSE "exit"
          /\ exit_cause' = IF o = "ok" THEN "none" ELSE "setup_err"
    /\ UNCHANGED <<config, nvml, data, elapsed, screen, result, trace, stamps,
                   attempts, fed>>

\* `let mut data = SystemData::new(config)?;`
NewDataWith(i) ==
    /\ pc = "new_data"
    /\ LET s == SystemInfoNew(i)
       IN  IF s.ok
           THEN /\ data' = SystemDataNew(config, s.info)
                /\ pc' = "gate"
                /\ exit_cause' = "none"
           ELSE /\ data' = data
                /\ pc' = "exit"
                /\ exit_cause' = "new_err"
    /\ UNCHANGED <<config, nvml, raw_mode, alt_screen, elapsed, screen, result,
                   trace, stamps, attempts, fed>>

\* the gate is open: data.update runs once (an error is only printed) and
\* last_update is reset
SampleWith(e, r, g) ==
    /\ pc = "gate"
    /\ e >= config.interval
    /\ elapsed' = e
    /\ LET u == SystemDataUpdate(data, stamps, r, g, config, nvml, attempts + 1)
       IN  /\ data' = u.d
           /\ result' = IF u.ok THEN "ok" ELSE "err"
           /\ trace' = u.tr
           /\ stamps' = u.st
           /\ fed' = IF u.ok THEN Append(fed, r.cpu * Scale) ELSE fed
    /\ attempts' = attempts + 1
    /\ pc' = "draw"
    /\ UNCHANGED <<config, nvml, raw_mode, alt_screen, screen, exit_cause>>

Sample ==
    /\ attempts < MaxTicks
    /\ \E e \in ElapsedValues, r \in Readings, g \in GpuOutcomes :
          SampleWith(e, r, g)

\* the gate is closed: no update in this iteration
Skip ==
    /\ pc = "gate"
    /\ \E e \in ElapsedValues :
          /\ e < config.interval
          /\ elapsed' = e
    /\ pc' = "draw"
    /\ UNCHANGED <<config, nvml, raw_mode, alt_screen, data, screen, exit_cause,
                   result, trace, stamps, attempts, fed>>

\* `terminal.draw(|f| ...)?`
Draw ==
    /\ pc = "draw"
    /\ \E draw_ok \in BOOLEAN :
          IF draw_ok
          THEN /\ screen' = Render(data, config)
               /\ pc' = "poll"
               /\ exit_cause' = "none"
          ELSE /\ screen' = screen
               /\ pc' = "exit"
               /\ exit_cause' = "draw_err"
    /\ UNCHANGED <<config, nvml, raw_mode, alt_screen, data, elapsed, result,
                   trace, stamps, attempts, fed>>

PollOutcomes ==
    {"timeout", "poll_err", "read_err", "key_q", "key_ctrl_c", "key_other",
     "mouse", "other_event"}

\* an input poll on which every key press ends the loop
AfterPollAnyKeyQuits(o) ==
    CASE o \in {"key_q", "key_ctrl_c", "key_other"} -> "restore"
      [] o \in {"poll_err", "read_err"}             -> "exit"
      [] OTHER                                     -> "gate"

\* where the input-poll step goes on each outcome
AfterPoll(o) ==
    CASE o \in {"key_q", "key_ctrl_c"}  -> "restore"
      [] o \in {"poll_err", "read_err"} -> "exit"
      [] OTHER                          -> "gate"

\* `if event::poll(10ms)? { match event::read()? { ... } }`
Poll ==
    /\ pc = "poll"
    /\ \E o \in PollOutcomes :
          /\ pc' = AfterPoll(o)
          /\ exit_cause' = IF AfterPoll(o) = "gate" THEN "none" ELSE o
    /\ UNCHANGED <<config, nvml, raw_mode, alt_screen, data, elapsed, screen,
                   result, trace, stamps, attempts, fed>>

\* "Restore terminal": disable_raw_mode()?, LeaveAlternateScreen?, show_cursor()?
Restore ==
    /\ pc = "restore"
    /\ \E o \in {"ok", "raw_err", "leave_err", "cursor_err"} :
          /\ raw_mode' = (o = "raw_err")
          /\ alt_screen' = (o \in {"raw_err", "leave_err"})
          /\ exit_cause' = IF o = "ok" THEN exit_cause ELSE "restore_err"
    /\ pc' = "exit"
    /\ UNCHANGED <<config, nvml, data, elapsed, screen, result, trace, stamps,
                   attempts, fed>>

NewData == \E i \in DetectInputs : NewDataWith(i)

Next ==
    \/ NvmlInit
    \/ TerminalSetup
    \/ NewData
    \/ Sample
    \/ Skip
    \/ Draw
    \/ Poll
    \/ Restore

Spec == Init /\ [][Next]_vars

----------------------------------------------------------------------------
(* The loop under a steady memory load: the host reports the same memory    *)
(* figures on every tick, GPU and network monitoring are off, and the run   *)
(* starts in the state main is in when it first reaches the loop.           *)

\* number of sampling ticks of a steady run
SteadyTicks == 20

\* readings with raw memory 0 %, 10 %, ..., 100 %
SteadyReadings ==
    { [cpu |-> 10, total_memory |-> 10, used_memory |-> m,
       available_memory |-> 10 - m, swap_total |-> 0, swap_used |-> 0,
       gpu_util |-> 0, gpu_mem_used |-> 0, gpu_mem_total |-> 1, gpu_temp |-> 0,
       nets |-> << >>] : m \in 0..10 }

InitSteady ==
    /\ pc = "gate"
    /\ config \in {c \in Configs : c.no_gpu /\ c.no_network}
    /\ nvml = FALSE
    /\ raw_mode = TRUE
    /\ alt_screen = TRUE
    /\ data = SystemDataNew(config, [gpu_model |-> "Unknown GPU", os_name |-> "Linux"])
    /\ elapsed = 0
    /\ screen = NoScreen
    /\ exit_cause = "none"
    /\ result = "none"
    /\ trace = << >>
    /\ stamps = NoStamps
    /\ attempts = 0
    /\ fed = << >>

\* a sampling tick on which the host reports what it reported before
SteadySample ==
    /\ attempts < SteadyTicks
    /\ \E e \in ElapsedValues, r \in SteadyReadings :
          /\ attempts > 0 => r.used_memory = data.used_memory
          /\ SampleWith(e, r, "ok")

NextSteady ==
    \/ SteadySample
    \/ Skip
    \/ Draw
    \/ Poll
    \/ Restore

SpecSteady == InitSteady /\ [][NextSteady]_vars

----------------------------------------------------------------------------
(* Vocabulary of the properties *)

LoopPcs == {"gate", "draw", "poll"}

\* SystemData has been constructed
Constructed == data # NoData

\* every rolling series the sampler keeps
AllSeries ==
    {data.cpu_data, data.memory_data, data.gpu_data}
    \cup {data.graphs[i].data : i \in 1..Len(data.graphs)}

\* the tick labels of a series grow strictly from oldest to newest
StrictlyIncreasing(s) == \A i \in 1..(Len(s) - 1) : s[i][1] < s[i + 1][1]

\* the last n entries of s
LastN(s, n) == SubSeq(s, Len(s) - n + 1, Len(s))

\* the samples pushed by the update calls that returned Ok: the k-th carries
\* tick k
FedSamples == [k \in 1..Len(fed) |-> <<k, fed[k]>>]

\* the step is one call of data.update
IsTick == attempts' = attempts + 1

\* entries of a trace with the given op
Entries(tr, op) == {i \in 1..Len(tr) : tr[i].op = op}

GpuCalls == {"gpu_device", "gpu_utilization", "gpu_memory_info", "gpu_temperature"}

\* the GPU telemetry call that failed in a trace, if one did
FailedGpuCall(tr) ==
    {tr[i].what : i \in Entries(tr, "fail")}
    \cap {"gpu_utilization", "gpu_memory_info", "gpu_temperature"}

\* the GPU capability is absent: disabled by configuration, or no NVML handle
GpuAbsent == config.no_gpu \/ ~nvml

----------------------------------------------------------------------------
(* C1 *)

\* C1: in every reachable state, the initial one included, every rolling
\* series (cpu_data, memory_data, gpu_data and each chart's data) has length
\* at most config.history.
C1_SeriesWithinHistory ==
    Constructed => \A s \in AllSeries : Len(s) <= config.history

(* C2 *)

\* C2: after N > H update calls that returned Ok, each chart's series holds
\* exactly the last H pushed samples, oldest first, labelled with the ticks
\* N-H+1 .. N; the CPU chart holds the last H fed CPU values.
C2_LastHSamples ==
    (Constructed /\ Len(fed) > config.history) =>
        /\ \A i \in 1..Len(data.graphs) :
              /\ Len(data.graphs[i].data) = config.history
              /\ \A j \in 1..Len(data.graphs[i].data) :
                    data.graphs[i].data[j][1] = Len(fed) - config.history + j
        /\ data.graphs[1].data = LastN(FedSamples, config.history)

(* C3 *)

\* C3: a tick in which one GPU telemetry call (utilization, memory info or
\* temperature) fails still completes: the failed metric keeps its previous
\* value, the network deltas are recomputed, every chart receives its sample
\* and the counter is incremented.
C3_GpuFailureTickCompletes ==
    [][ (IsTick /\ FailedGpuCall(trace') # {}) =>
            /\ ("gpu_utilization" \in FailedGpuCall(trace')
                    => data'.gpu_current = data.gpu_current)
            /\ ("gpu_memory_info" \in FailedGpuCall(trace')
                    => data'.gpu_memory = data.gpu_memory)
            /\ ("gpu_temperature" \in FailedGpuCall(trace')
                    => data'.gpu_temp = data.gpu_temp)
            /\ (~config.no_network => stamps'.net = attempts')
            /\ stamps'.graphs = attempts'
            /\ \A i \in 1..Len(data'.graphs) :
                  /\ data'.graphs[i].data # << >>
                  /\ Last(data'.graphs[i].data)[1] = data.counter
            /\ data'.counter = data.counter + 1 ]_vars

(* C4 *)

\* C4: in every reachable state the tick labels inside each rolling series
\* are pairwise distinct and strictly increasing from oldest to newest.
C4_TicksStrictlyIncreasing ==
    Constructed => \A s \in AllSeries : StrictlyIncreasing(s)

(* C5 *)

\* C5: a completed sampling cycle raises the counter by exactly 1 whatever
\* time elapsed; an iteration of the loop runs at most one cycle (the gate
\* is passed once and leads to the redraw); no other step changes the
\* counter.
C5_CounterStepsByOne ==
    [][ (pc \in LoopPcs) =>
            /\ (IsTick /\ result' = "ok") => data'.counter = data.counter + 1
            /\ (data'.counter # data.counter) =>
                    (pc = "gate" /\ IsTick /\ result' = "ok"
                     /\ elapsed' >= config.interval)
            /\ (attempts' # attempts) => (IsTick /\ pc = "gate" /\ pc' = "draw")
            /\ (pc = "gate") => pc' = "draw" ]_vars

\* a cycle completed after several intervals had elapsed, following an
\* earlier completed cycle
C5_Witness ==
    /\ pc = "draw"
    /\ result = "ok"
    /\ elapsed >= 4 * config.interval
    /\ data.counter = 3

(* C6 *)

\* C6: when NVML failed to initialise while GPU monitoring is not disabled,
\* the rendered view reports the GPU as absent: no GPU chart exists or is
\* appended to, and no GPU section is shown.
C6_GpuAbsentFromView ==
    (Constructed /\ ~config.no_gpu /\ ~nvml) =>
        /\ \A i \in 1..Len(data.graphs) : data.graphs[i].graph_type # "Gpu"
        /\ screen.drawn =>
              /\ screen.stats.gpu = << >>
              /\ \A i \in 1..Len(screen.charts) :
                    screen.charts[i].title # GraphTitle("Gpu")

(* C7 *)

\* C7: when the GPU capability is absent no tick performs a GPU read and
\* every tick leaves gpu_current, gpu_memory, gpu_temp and gpu_data as they
\* were; the capability is decided at start-up and never changes.
C7_NoGpuReadWhenAbsent ==
    [][ /\ config' = config
        /\ (pc # "nvml_init") => nvml' = nvml
        /\ (IsTick /\ GpuAbsent) =>
              /\ \A i \in 1..Len(trace') : trace'[i].what \notin GpuCalls
              /\ data'.gpu_current = data.gpu_current
              /\ data'.gpu_memory = data.gpu_memory
              /\ data'.gpu_temp = data.gpu_temp
              /\ data'.gpu_data = data.gpu_data ]_vars

\* two ticks have run with the GPU enabled by configuration but no NVML handle
C7_Witness ==
    /\ ~config.no_gpu
    /\ ~nvml
    /\ attempts = 2
    /\ result = "ok"
    /\ data.gpu_data = << <<0, 0>> >>

(* C8 *)

\* the probing steps that are reached and fail: reading the device name
\* after NVML found a device, or the product name of an AMD card
NameReadFailed(i) ==
    \/ i.nvml_init /\ i.device /\ ~i.name
    \/ ~(i.nvml_init /\ i.device) /\ i.vendor = "0x1002" /\ ~i.product_name

\* some step of the probing fails: NVML init, the device lookup, a name
\* read, or reading the vendor file
ProbeStepFailed(i) ==
    \/ ~i.nvml_init
    \/ ~i.device
    \/ NameReadFailed(i)
    \/ i.vendor = "unreadable"

\* C8: whatever step of GPU probing fails, the process does not terminate:
\* the GPU identity is recorded as Unknown and the main loop is entered.
C8_ProbeFailureNotFatal ==
    [][ \A i \in DetectInputs :
            (NewDataWith(i) /\ ProbeStepFailed(i)) =>
                /\ pc' = "gate"
                /\ NameReadFailed(i) =>
                        data'.system_info.gpu_model = "Unknown GPU" ]_vars

(* C9 *)

\* C9: within one tick no append precedes a read, and after any tick the
\* values the renderer sees were all written by the same tick.
C9_AppendsAfterReads ==
    /\ \A i \in Entries(trace, "push"), j \in Entries(trace, "read") : j < i
    /\ (attempts > 0) =>
          /\ stamps.cpu = stamps.graphs
          /\ stamps.mem = stamps.cpu
          /\ (~config.no_network => stamps.net = stamps.cpu)

(* C10 *)

\* the step leaves the main loop
LeavesLoop == pc \in LoopPcs /\ pc' \notin LoopPcs

\* C10 as stated: the loop ends only on 'q' or Ctrl-C seen at the input poll.
C10_OnlyCancellationEndsLoop ==
    [][ LeavesLoop =>
            (pc = "poll" /\ exit_cause' \in {"key_q", "key_ctrl_c"}) ]_vars

\* C10 amended: the loop ends on 'q' or Ctrl-C seen at the input poll (to
\* the terminal restore), or when the redraw or the input poll/read returns
\* an error (main returns it); no other event and no sampling error ends it.
C10_LoopExits ==
    [][ /\ LeavesLoop =>
              \/ pc = "poll" /\ exit_cause' \in {"key_q", "key_ctrl_c"}
                             /\ pc' = "restore"
              \/ pc = "poll" /\ exit_cause' \in {"poll_err", "read_err"}
                             /\ pc' = "exit"
              \/ pc = "draw" /\ exit_cause' = "draw_err" /\ pc' = "exit"
        /\ (pc = "gate") => pc' = "draw" ]_vars

\* the loop was left on 'q' in an iteration whose sampling had failed
C10_Witness ==
    /\ pc = "restore"
    /\ exit_cause = "key_q"
    /\ result = "err"

(* C11 *)

\* the raw memory percentage of the latest reading, used / total * 100
RawMemory == Percent(data.used_memory, data.total_memory)

\* C11: on the first sampling tick the smoothed memory value is the raw
\* memory percentage itself, so the first stored memory sample (the entry
\* of memory_data with tick 1) equals the first raw reading.
C11_FirstSampleIsRaw ==
    (Constructed /\ attempts = 1) =>
        /\ data.mem_current = RawMemory
        /\ Last(data.memory_data) = <<1, RawMemory>>

(* C12 *)

Abs(x) == IF x < 0 THEN -x ELSE x

\* C12: fed the same raw memory percentage r on every tick, the smoothed
\* value is within 0.01 of r once 20 ticks have run from the sampler's
\* starting state, and once it equals r a further tick leaves it equal to r.
C12_SteadyConvergence ==
    [][ /\ (IsTick /\ attempts' >= 20) =>
              Abs(data'.mem_current - RawMemory') * 100 < Scale
        /\ (IsTick /\ attempts > 0 /\ data.mem_current = RawMemory) =>
              data'.mem_current = RawMemory' ]_vars

(* C13 *)

\* the tick whose trace is tr read the network interfaces
NetworksRead(tr) == \E i \in 1..Len(tr) : tr[i] = Ev("read", "networks")

\* C13: on every tick that reads the interface counters (every completed
\* tick when network monitoring is on), with prev the sums read by the
\* previous such tick and new the sums read now, the received and
\* transmitted deltas are new - prev when new >= prev and 0 otherwise,
\* never negative, and the stored totals become new.
C13_SaturatingDeltas ==
    [][ IsTick =>
          /\ (~config.no_network /\ result' = "ok") => NetworksRead(trace')
          /\ NetworksRead(trace') =>
                LET prev_rx == SumReceived(data.networks)
                    prev_tx == SumTransmitted(data.networks)
                    new_rx  == SumReceived(data'.networks)
                    new_tx  == SumTransmitted(data'.networks)
                IN  /\ data'.rx_bytes =
                          (IF new_rx >= prev_rx THEN new_rx - prev_rx ELSE 0)
                    /\ data'.tx_bytes =
                          (IF new_tx >= prev_tx THEN new_tx - prev_tx ELSE 0)
                    /\ data'.rx_bytes >= 0
                    /\ data'.tx_bytes >= 0
                    /\ data'.rx_bytes_total = new_rx
                    /\ data'.tx_bytes_total = new_tx ]_vars

\* the received counter went from 100 to 80 (delta 0) while the transmitted
\* counter went from 40 to 60 (delta 20)
C13_Witness ==
    /\ Constructed
    /\ attempts >= 2
    /\ data.rx_bytes_total = 80
    /\ data.rx_bytes = 0
    /\ data.tx_bytes_total = 60
    /\ data.tx_bytes = 20

(* C14 *)

\* the ways main ends once raw mode and the alternate screen are on and
\* the terminal exists: a quit key (followed by a successful restore), an
\* error of the redraw, of the input poll or read, or of SystemData::new
ExitPaths == {"key_q", "key_ctrl_c", "draw_err", "poll_err", "read_err", "new_err"}

\* C14: on every path by which main leaves the loop or fails after the
\* terminal was set up, the terminal is restored before the process exits:
\* raw mode is off and the alternate screen has been left.
C14_TerminalRestoredOnExit ==
    (pc = "exit" /\ exit_cause \in ExitPaths) => (~raw_mode /\ ~alt_screen)

====
